---- MODULE Spec2Model ----
(***************************************************************************)
(* Open Finance Brasil bank-connection flow of CashFlow_2_0: the consent   *)
(* manager, the token manager and the FastAPI handlers of                  *)
(* docs/OPEN_FINANCE_API_INTEGRATION.md, as a state machine.  Each handler *)
(* is an asynchronous coroutine; a handler yields only where it awaits the *)
(* bank, so every handler is split into steps at its bank calls and each   *)
(* step is atomic.  The bank is external: each of its answers is a free    *)
(* choice between success and failure.                                     *)
(***************************************************************************)
EXTENDS Integers, Sequences, FiniteSets, Bags, TLC

\* ------------------------------------------------------------------ bounds
MaxConsents == 1        \* consent identifiers the bank hands out: 1..MaxConsents
MaxTime == 2            \* the clock runs 0..MaxTime
MaxProcs == 2           \* request handlers in flight at once
MaxTokens == 2          \* token payloads stored in one behaviour
ExpirationWindow == 1   \* the consent's lifetime in clock ticks (90 days in the code)
ShortExpiresIn == 1     \* an expires_in the bank may send, in clock ticks
MaxAccounts == 2        \* accounts under the connection: 1..MaxAccounts
MaxExt == 2             \* external transaction ids the bank uses: 1..MaxExt
MaxPageLen == 2         \* transactions on one page
MaxRuns == 2            \* completed sync_bank_data runs in one behaviour
MaxRequests == 2        \* requests the transport carries in one behaviour
MaxPages == 2           \* transaction pages the bank reports for an account
MaxClicks == 3          \* clicks the Connect button takes in one behaviour

\* ------------------------------------------------------- program constants
DefaultExpiresIn == 3600   \* tokens.get("expires_in", 3600)
max_retries == 3           \* OFBSettings.max_retries

None == <<"None", 0>>       \* Python's None where a token may stand
Absent == -1                \* a key the bank's payload does not carry

ConsentIds == 1..MaxConsents
UnknownConsent == MaxConsents + 1   \* a consent id the bank never issued
Accounts == 1..MaxAccounts
ExtIds == 1..MaxExt
\* What one page of the bank's transactions can be: their ids, in the bank's order.
Pages == UNION {[1..n -> ExtIds] : n \in 0..MaxPageLen}

VARIABLES
    now,            \* datetime.utcnow()
    uniqueKey,      \* whether table ofb_tokens has a unique key on (user, consent)
    issued,         \* consent ids the bank has issued: 1..issued
    consentStore,   \* local consent storage: the ids stored
    expires_at,     \* expirationDateTime of each consent, as connect_bank returns it
    authUrl,        \* consents whose authorization URL has been generated
    connected,      \* consents for which oauth_callback answered "connected"
    disconnected,   \* consents whose local data is marked disconnected
    ofb_tokens,     \* table ofb_tokens: the rows, in insertion order
    tokenSeq,       \* token payloads stored so far (names the next fresh token)
    background_tasks, \* initial syncs scheduled by oauth_callback, per consent
    inflight,       \* the request handlers suspended at a bank call, as a bag
    last,           \* the answer a handler gave in the step just taken, if any
    bank_pages,     \* the bank's first transaction page of each account
    transactions_db, \* the local transaction table: the rows, in insertion order
    sync,           \* the sync_bank_data handler
    runs,           \* sync_bank_data runs that answered "completed"
    first_run,      \* the rows of transactions_db when the first run completed
    transport,      \* requests sent on the network transport so far
    bank_script,    \* the bank's answers, in the order of the requests it receives
    bank_call,      \* the latest call of the bank API classes, in flight or finished
    auth_token,     \* whether localStorage holds 'auth_token'
    location,       \* window.location.href
    api_request,    \* the latest request of the frontend's API client
    status,         \* OFBIntegration state: the health data, "null" before it arrives
    loading,        \* OFBIntegration state: the health fetch is running
    error,          \* OFBIntegration state: the error message, "null" if none
    connection,     \* OFBIntegration state: the connection data, "null" if none
    connecting,     \* OFBIntegration state: the flag initiateConnection raises
    health,         \* position of fetchOFBStatus
    pending,        \* initiateConnection calls in flight, by what they await
    clicks,         \* clicks the Connect button has taken
    opened          \* windows opened on an authorization URL

consentVars == <<now, uniqueKey, issued, consentStore, expires_at, authUrl, connected,
                 disconnected, ofb_tokens, tokenSeq, background_tasks, inflight, last>>

syncVars == <<bank_pages, transactions_db, sync, runs, first_run>>

gatewayVars == <<transport, bank_script, bank_call>>

frontendVars == <<auth_token, location, api_request, status, loading, error,
                  connection, connecting, health, pending, clicks, opened>>

vars == <<consentVars, syncVars, gatewayVars, frontendVars>>

\* What a caller of connect_bank may ask for: the permissions of the code's own
\* consent request, or a list with a permission no bank API of the code serves.
PermissionRequests == {{"accounts", "transactions"}, {"accounts", "loans"}}

\* ----------------------------------------------------------- token manager
\* Fernet encryption: the ciphertext is not the plaintext, and decrypts to it.
_encrypt_token(token) == <<"fernet", token[1], token[2]>>

_decrypt_token(encrypted_token) == <<encrypted_token[2], encrypted_token[3]>>

\* A token payload as the bank's token endpoint returns it.
TokenPayload(k, hasRefresh, ttl) ==
    [access_token |-> <<"at", k>>,
     refresh_token |-> IF hasRefresh THEN <<"rt", k>> ELSE None,
     expires_in |-> ttl]

NoPayload == [access_token |-> None, refresh_token |-> None, expires_in |-> Absent]

ExpiresInValues == {ShortExpiresIn, Absent}

\* _get_token_record: the rows of ofb_tokens for one consent (the user is the
\* consent's owner); the caller gets one of them.
RowsFor(rows, c) == SelectSeq(rows, LAMBDA r : r.consent = c)

\* store_tokens raises: _encrypt_token(None) calls None.encode(); and an INSERT
\* under a unique key fails when the key is present.
StoreRaises(rows, unique, c, tokens) ==
    \/ tokens.refresh_token = None
    \/ unique /\ Len(RowsFor(rows, c)) > 0

token_record(c, tokens, t) ==
    [consent |-> c,
     access_token |-> _encrypt_token(tokens.access_token),
     refresh_token |-> _encrypt_token(tokens.refresh_token),
     expires_at |-> t + (IF tokens.expires_in = Absent THEN DefaultExpiresIn
                         ELSE tokens.expires_in)]

\* store_tokens: INSERT INTO ofb_tokens.
store_tokens(rows, unique, c, tokens, t) ==
    IF StoreRaises(rows, unique, c, tokens) THEN rows
    ELSE Append(rows, token_record(c, tokens, t))

\* _remove_stored_tokens: every row of the key is deleted.
_remove_stored_tokens(rows, c) == SelectSeq(rows, LAMBDA r : r.consent # c)

\* --------------------------------------------------------- consent status
\* The consent's lifecycle state as the handlers leave it: the bank's answer to
\* create_consent is stored with status AWAITING_AUTHORISATION, revoke_consent
\* removes the stored consent, oauth_callback answers "connected".  No handler
\* compares the clock with expirationDateTime, so there is no EXPIRED.
Status(c) ==
    IF c > issued THEN "NONE"
    ELSE IF c \notin consentStore THEN "REVOKED"
    ELSE IF c \in connected THEN "ACTIVE"
    ELSE IF c \in authUrl THEN "AWAITING_AUTHORIZATION"
    ELSE "REQUESTED"

\* ---------------------------------------------------------------- handlers
\* A handler suspended at a bank call: what it is, where it is, the consent it
\* is about, the consent's status when it was called and whether it was called
\* after the consent's expires_at.
Handler(op, pc, c) ==
    [op |-> op, pc |-> pc, consent |-> c, pre |-> Status(c),
     late |-> (c \in 1..issued /\ now > expires_at[c]), permissions |-> {}]

Suspend(r) == inflight (+) SetToBag({r})

Resume(r) == inflight (-) SetToBag({r})

Suspended(op, pc) == {r \in BagToSet(inflight) : r.op = op /\ r.pc = pc}

NoResponse ==
    [op |-> "none", consent |-> 0, pre |-> "NONE", late |-> FALSE, seen |-> "NONE",
     result |-> "none", wrote |-> FALSE, refreshes |-> 0, tokens |-> NoPayload,
     ret |-> None, permissions |-> {}]

\* The answer of handler r: its result, whether it changed stored state, the
\* refresh requests it made, the payload the bank gave it, the token it returns.
\* seen is the consent's status in the state the answering step started from.
Response(r, result, wrote, refreshes, tokens, ret) ==
    [op |-> r.op, consent |-> r.consent, pre |-> r.pre, late |-> r.late,
     seen |-> Status(r.consent), result |-> result, wrote |-> wrote,
     refreshes |-> refreshes, tokens |-> tokens, ret |-> ret,
     permissions |-> r.permissions]

SyncIdle == [pc |-> "idle", idx |-> 0, results |-> <<>>, status |-> "none"]

ConsentInit ==
    /\ now = 0
    /\ uniqueKey \in BOOLEAN
    /\ issued = 0
    /\ consentStore = {}
    /\ expires_at = [c \in ConsentIds |-> 0]
    /\ authUrl = {}
    /\ connected = {}
    /\ disconnected = {}
    /\ ofb_tokens = <<>>
    /\ tokenSeq = 0
    /\ background_tasks = [c \in ConsentIds \cup {UnknownConsent} |-> 0]
    /\ inflight = EmptyBag
    /\ last = NoResponse

\* What the bank answers to a request: the HTTP status and the error code of the
\* body; status 0 stands for no answer within the client's timeout.
BankAnswer(status_code, code) == [status_code |-> status_code, code |-> code]

NoAnswer == BankAnswer(0, "NONE")

TimedOut == BankAnswer(0, "TIMEOUT")

BankAnswers ==
    {BankAnswer(200, "OK"), BankAnswer(201, "CREATED"),
     BankAnswer(429, "RATE_LIMIT_EXCEEDED"), BankAnswer(500, "SERVER_ERROR"),
     BankAnswer(401, "CERTIFICATE_ERROR"), TimedOut}

\* The exception a call raises: its type and, for HTTPException, its status_code.
Raised(type, status_code) == [type |-> type, status_code |-> status_code]

NoError == Raised("none", 0)

\* payment_data: the keys the dict has and the values under them.  An amount is
\* a number, a float NaN or a string; creditor_account may be None.
required_fields == {"amount", "creditor_ispb", "creditor_account", "creditor_account_type"}

NoPayment ==
    [keys |-> {}, amount |-> <<"int", 0>>, creditor_account |-> "None",
     creditor_account_type |-> "None"]

ValidPayment ==
    [keys |-> required_fields, amount |-> <<"int", 1>>,
     creditor_account |-> "12345-6", creditor_account_type |-> "CACC"]

\* The payment requests tried: the valid one, and each request that differs from
\* it in its keys, its amount, its creditor account or its account type, or in
\* two of them.
PaymentRequests ==
    LET All == [keys : {required_fields} \cup {required_fields \ {f} : f \in required_fields},
                amount : {<<"int", -1>>, <<"int", 0>>, <<"int", 1>>, <<"str", 0>>,
                          <<"nan", 0>>},
                creditor_account : {"12345-6", "None"},
                creditor_account_type : {"CACC", "XXXX"}]
        Differences(p) == {f \in DOMAIN p : p[f] # ValidPayment[f]}
    IN {p \in All : Cardinality(Differences(p)) <= 2}

\* No call of the bank API classes has been made.
NoCall ==
    [op |-> "none", pc |-> "idle", attempts |-> 0, first |-> 0,
     payment_data |-> NoPayment, answer |-> NoAnswer, result |-> "none",
     error |-> NoError, returned |-> {}, page |-> 0, totalPages |-> 0,
     suggestions |-> <<>>, transactions |-> <<>>,
     pagination |-> [page |-> 0, pages |-> 0]]

\* An API request of the frontend that has not been made.
NoRequest ==
    [pc |-> "idle", sent |-> 0, authorization |-> FALSE, outcome |-> "none",
     promise |-> "none", console |-> "none"]

\* The OFBIntegration component as useState initializes it, before its effect runs.
Unmounted ==
    /\ status = "null"
    /\ loading = TRUE
    /\ error = "null"
    /\ connection = "null"
    /\ connecting = FALSE
    /\ health = "idle"
    /\ pending = [fetch |-> 0, json |-> 0]
    /\ clicks = 0
    /\ opened = 0

FrontendIdle ==
    /\ auth_token = FALSE
    /\ location = "/"
    /\ api_request = NoRequest
    /\ Unmounted

GatewayIdle ==
    /\ transport = 0
    /\ bank_script = <<>>
    /\ bank_call = NoCall

Init ==
    /\ FrontendIdle
    /\ ConsentInit
    /\ GatewayIdle
    /\ bank_pages = [a \in Accounts |-> <<>>]
    /\ transactions_db = <<>>
    /\ sync = SyncIdle
    /\ runs = 0
    /\ first_run = <<>>

\* The clock advances.
Tick ==
    /\ UNCHANGED <<syncVars, gatewayVars, frontendVars>>
    /\ now < MaxTime
    /\ now' = now + 1
    /\ last' = NoResponse
    /\ UNCHANGED <<uniqueKey, issued, consentStore, expires_at, authUrl, connected,
                   disconnected, ofb_tokens, tokenSeq, background_tasks, inflight>>

\* connect_bank: create_consent posts the consent, with the permissions the
\* caller asked for, to the bank.
ConnectBank ==
    /\ UNCHANGED <<syncVars, gatewayVars, frontendVars>>
    /\ BagCardinality(inflight) < MaxProcs
    /\ issued < MaxConsents
    /\ \E permissions \in PermissionRequests :
         inflight' = Suspend([Handler("connect_bank", "post_sent", 0)
                                 EXCEPT !.permissions = permissions])
    /\ last' = NoResponse
    /\ UNCHANGED <<now, uniqueKey, issued, consentStore, expires_at, authUrl,
                   connected, disconnected, ofb_tokens, tokenSeq, background_tasks>>

\* create_consent after the bank's answer: anything but 201 raises; on 201 the
\* consent is stored locally.
CreateConsentAnswered ==
    /\ UNCHANGED <<syncVars, gatewayVars, frontendVars>>
    /\  \E r \in Suspended("connect_bank", "post_sent") :
         \/ /\ issued < MaxConsents
            /\ issued' = issued + 1
            /\ consentStore' = consentStore \cup {issued + 1}
            /\ expires_at' = [expires_at EXCEPT ![issued + 1] = now + ExpirationWindow]
            /\ inflight' = Resume(r) (+)
                   SetToBag({[r EXCEPT !.pc = "stored", !.consent = issued + 1]})
            /\ last' = NoResponse
            /\ UNCHANGED <<now, uniqueKey, authUrl, connected, disconnected, ofb_tokens,
                           tokenSeq, background_tasks>>
         \/ /\ inflight' = Resume(r)
            /\ last' = Response(r, "HTTPException", FALSE, 0, NoPayload, None)
            /\ UNCHANGED <<now, uniqueKey, issued, consentStore, expires_at, authUrl,
                           connected, disconnected, ofb_tokens, tokenSeq,
                           background_tasks>>

\* connect_bank: get_authorization_url, then the answer to the user.
AuthorizationUrl ==
    /\ UNCHANGED <<syncVars, gatewayVars, frontendVars>>
    /\  \E r \in Suspended("connect_bank", "stored") :
         /\ authUrl' = authUrl \cup {r.consent}
         /\ inflight' = Resume(r)
         /\ last' = Response(r, "ok", TRUE, 0, NoPayload, None)
         /\ UNCHANGED <<now, uniqueKey, issued, consentStore, expires_at, connected,
                        disconnected, ofb_tokens, tokenSeq, background_tasks>>

\* oauth_callback: the state parameter names the consent (one whose authorization
\* URL was handed out, or one the bank never issued); the authorization code goes
\* to the bank's token endpoint.
OauthCallback(c) ==
    /\ UNCHANGED <<syncVars, gatewayVars, frontendVars>>
    /\ BagCardinality(inflight) < MaxProcs
    /\ c \in authUrl \/ c = UnknownConsent
    /\ inflight' = Suspend(Handler("oauth_callback", "exchange_sent", c))
    /\ last' = NoResponse
    /\ UNCHANGED <<now, uniqueKey, issued, consentStore, expires_at, authUrl,
                   connected, disconnected, ofb_tokens, tokenSeq, background_tasks>>

\* oauth_callback after exchange_code_for_tokens: on 200 the tokens are stored,
\* the initial sync is scheduled and the answer is "connected"; any exception
\* becomes HTTPException(500).
TokensExchanged ==
    /\ UNCHANGED <<syncVars, gatewayVars, frontendVars>>
    /\  \E r \in Suspended("oauth_callback", "exchange_sent") :
         LET c == r.consent IN
         /\ inflight' = Resume(r)
         /\ \/ /\ last' = Response(r, "HTTPException", FALSE, 0, NoPayload, None)
               /\ UNCHANGED <<ofb_tokens, tokenSeq, connected, background_tasks>>
            \/ \E hasRefresh \in BOOLEAN, ttl \in ExpiresInValues :
                 LET tokens == TokenPayload(tokenSeq + 1, hasRefresh, ttl) IN
                 IF StoreRaises(ofb_tokens, uniqueKey, c, tokens)
                 THEN /\ last' = Response(r, "HTTPException", FALSE, 0, tokens, None)
                      /\ UNCHANGED <<ofb_tokens, tokenSeq, connected, background_tasks>>
                 ELSE /\ tokenSeq < MaxTokens
                      /\ tokenSeq' = tokenSeq + 1
                      /\ ofb_tokens' = store_tokens(ofb_tokens, uniqueKey, c, tokens, now)
                      /\ background_tasks' = [background_tasks EXCEPT ![c] = @ + 1]
                      /\ connected' = connected \cup {c}
                      /\ last' = Response(r, "connected", TRUE, 0, tokens, None)
         /\ UNCHANGED <<now, uniqueKey, issued, consentStore, expires_at, authUrl,
                        disconnected>>

\* ConsentManager.revoke_consent, called on its own (DELETE /consents/{id}).
RevokeConsent(c) ==
    /\ UNCHANGED <<syncVars, gatewayVars, frontendVars>>
    /\ BagCardinality(inflight) < MaxProcs
    /\ c <= issued
    /\ inflight' = Suspend(Handler("revoke_consent", "delete_sent", c))
    /\ last' = NoResponse
    /\ UNCHANGED <<now, uniqueKey, issued, consentStore, expires_at, authUrl,
                   connected, disconnected, ofb_tokens, tokenSeq, background_tasks>>

\* disconnect_bank: it starts with revoke_consent.
DisconnectBank(c) ==
    /\ UNCHANGED <<syncVars, gatewayVars, frontendVars>>
    /\ BagCardinality(inflight) < MaxProcs
    /\ c <= issued
    /\ inflight' = Suspend(Handler("disconnect_bank", "delete_sent", c))
    /\ last' = NoResponse
    /\ UNCHANGED <<now, uniqueKey, issued, consentStore, expires_at, authUrl,
                   connected, disconnected, ofb_tokens, tokenSeq, background_tasks>>

\* revoke_consent after the bank's answer to DELETE: anything but 204 raises
\* (disconnect_bank turns that into HTTPException(500)); on 204 the consent is
\* removed from local storage, and disconnect_bank goes on to remove the stored
\* tokens and mark the local data disconnected.
RevokeConsentAnswered ==
    /\ UNCHANGED <<syncVars, gatewayVars, frontendVars>>
    /\  \E r \in Suspended("revoke_consent", "delete_sent")
                  \cup Suspended("disconnect_bank", "delete_sent") :
         LET c == r.consent IN
         /\ inflight' = Resume(r)
         /\ \/ /\ last' = Response(r, "HTTPException", FALSE, 0, NoPayload, None)
               /\ UNCHANGED <<consentStore, ofb_tokens, disconnected>>
            \/ /\ consentStore' = consentStore \ {c}
               /\ IF r.op = "revoke_consent"
                  THEN /\ last' = Response(r, "True", c \in consentStore, 0, NoPayload, None)
                       /\ UNCHANGED <<ofb_tokens, disconnected>>
                  ELSE /\ ofb_tokens' = _remove_stored_tokens(ofb_tokens, c)
                       /\ disconnected' = disconnected \cup {c}
                       /\ last' = Response(r, "disconnected",
                                           \/ c \in consentStore
                                           \/ c \notin disconnected
                                           \/ Len(RowsFor(ofb_tokens, c)) > 0,
                                           0, NoPayload, None)
         /\ UNCHANGED <<now, uniqueKey, issued, expires_at, authUrl, connected,
                        tokenSeq, background_tasks>>

\* get_valid_token up to its first await on the bank: the token record is read;
\* none: ValueError; not expired: the decrypted access token; expired: the
\* refresh request is sent, or ValueError when there is no refresh token.
GetValidToken(c) ==
    /\ UNCHANGED <<syncVars, gatewayVars, frontendVars>>
    /\ BagCardinality(inflight) < MaxProcs
    /\ c <= issued
    /\ LET rows == RowsFor(ofb_tokens, c)
           r == Handler("get_valid_token", "read", c)
       IN IF Len(rows) = 0
          THEN /\ last' = Response(r, "ValueError", FALSE, 0, NoPayload, None)
               /\ UNCHANGED inflight
          ELSE \E i \in 1..Len(rows) :
                 LET token_rec == rows[i] IN
                 IF token_rec.expires_at < now
                 THEN IF token_rec.refresh_token # None
                      THEN /\ inflight' = Suspend([r EXCEPT !.pc = "refresh_sent"])
                           /\ last' = NoResponse
                      ELSE /\ last' = Response(r, "ValueError", FALSE, 0, NoPayload, None)
                           /\ UNCHANGED inflight
                 ELSE /\ last' = Response(r, "ok", FALSE, 0, NoPayload,
                                          _decrypt_token(token_rec.access_token))
                      /\ UNCHANGED inflight
    /\ UNCHANGED <<now, uniqueKey, issued, consentStore, expires_at, authUrl,
                   connected, disconnected, ofb_tokens, tokenSeq, background_tasks>>

\* get_valid_token after _refresh_token: the new tokens are stored and the new
\* access token is returned.
TokenRefreshed ==
    /\ UNCHANGED <<syncVars, gatewayVars, frontendVars>>
    /\  \E r \in Suspended("get_valid_token", "refresh_sent") :
         LET c == r.consent IN
         /\ inflight' = Resume(r)
         /\ \/ /\ last' = Response(r, "RefreshError", FALSE, 1, NoPayload, None)
               /\ UNCHANGED <<ofb_tokens, tokenSeq>>
            \/ \E hasRefresh \in BOOLEAN, ttl \in ExpiresInValues :
                 LET new_tokens == TokenPayload(tokenSeq + 1, hasRefresh, ttl) IN
                 IF StoreRaises(ofb_tokens, uniqueKey, c, new_tokens)
                 THEN /\ last' = Response(r, "StoreError", FALSE, 1, new_tokens, None)
                      /\ UNCHANGED <<ofb_tokens, tokenSeq>>
                 ELSE /\ tokenSeq < MaxTokens
                      /\ tokenSeq' = tokenSeq + 1
                      /\ ofb_tokens' = store_tokens(ofb_tokens, uniqueKey, c, new_tokens, now)
                      /\ last' = Response(r, "ok", TRUE, 1, new_tokens,
                                          new_tokens.access_token)
         /\ UNCHANGED <<now, uniqueKey, issued, consentStore, expires_at, authUrl,
                        connected, disconnected, background_tasks>>

Next ==
    \/ Tick
    \/ ConnectBank
    \/ CreateConsentAnswered
    \/ AuthorizationUrl
    \/ \E c \in ConsentIds \cup {UnknownConsent} : OauthCallback(c)
    \/ TokensExchanged
    \/ \E c \in ConsentIds : RevokeConsent(c)
    \/ \E c \in ConsentIds : DisconnectBank(c)
    \/ RevokeConsentAnswered
    \/ \E c \in ConsentIds : GetValidToken(c)
    \/ TokenRefreshed

Spec == Init /\ [][Next]_vars

\* ------------------------------------------------------------ sync engine
\* get_account_transactions: each transaction of the bank's page becomes a local
\* one, its external_id the bank's transactionId, its account the account asked.
get_account_transactions(account_id, page) ==
    [i \in 1..Len(page) |-> [external_id |-> page[i], account |-> account_id]]

HasRow(rows, txn) ==
    \E i \in 1..Len(rows) :
        rows[i].account = txn.account /\ rows[i].external_id = txn.external_id

RECURSIVE import_always_inserts(_, _)
import_always_inserts(rows, transactions) ==
    IF transactions = <<>> THEN rows
    ELSE import_always_inserts(Append(rows, Head(transactions)), Tail(transactions))

\* import_transactions_to_db: upsertByExternalId of every transaction; one whose
\* (account, external id) is stored already is not inserted again.
RECURSIVE import_transactions_to_db(_, _)
import_transactions_to_db(rows, transactions) ==
    IF transactions = <<>> THEN rows
    ELSE import_transactions_to_db(
            IF HasRow(rows, Head(transactions)) THEN rows
            ELSE Append(rows, Head(transactions)),
            Tail(transactions))

SyncInit ==
    /\ FrontendIdle
    /\ ConsentInit
    /\ GatewayIdle
    /\ uniqueKey = FALSE
    /\ bank_pages \in [Accounts -> Pages]
    /\ transactions_db = <<>>
    /\ sync = SyncIdle
    /\ runs = 0
    /\ first_run = <<>>

\* Any exception in sync_bank_data becomes HTTPException(500).
SyncAborted ==
    /\ sync' = [SyncIdle EXCEPT !.status = "HTTPException"]
    /\ UNCHANGED <<bank_pages, transactions_db, runs, first_run>>

\* sync_bank_data: get_accounts is sent to the bank.
SyncBankData ==
    /\ UNCHANGED <<consentVars, gatewayVars, frontendVars>>
    /\ sync.pc = "idle"
    /\ runs < MaxRuns
    /\ sync' = [pc |-> "accounts_sent", idx |-> 0, results |-> <<>>,
                status |-> "running"]
    /\ UNCHANGED <<bank_pages, transactions_db, runs, first_run>>

\* get_accounts answered: the loop starts with the first account's balances.
AccountsAnswered ==
    /\ UNCHANGED <<consentVars, gatewayVars, frontendVars>>
    /\ sync.pc = "accounts_sent"
    /\ \/ SyncAborted
       \/ /\ sync' = [sync EXCEPT !.pc = "balances_sent", !.idx = 1]
          /\ UNCHANGED <<bank_pages, transactions_db, runs, first_run>>

\* get_account_balances answered: the account's transactions are asked for.
BalancesAnswered ==
    /\ UNCHANGED <<consentVars, gatewayVars, frontendVars>>
    /\ sync.pc = "balances_sent"
    /\ \/ SyncAborted
       \/ /\ sync' = [sync EXCEPT !.pc = "transactions_sent"]
          /\ UNCHANGED <<bank_pages, transactions_db, runs, first_run>>

\* get_account_transactions answered: the page is imported and the account's
\* result recorded; after the last account the answer is "completed".
TransactionsAnswered ==
    /\ UNCHANGED <<consentVars, gatewayVars, frontendVars>>
    /\ sync.pc = "transactions_sent"
    /\ \/ SyncAborted
       \/ LET account_id == sync.idx
              transactions == get_account_transactions(account_id, bank_pages[account_id])
              rows == import_transactions_to_db(transactions_db, transactions)
              imported_count == Len(rows) - Len(transactions_db)
              results == Append(sync.results,
                                [account_id |-> account_id,
                                 transactions_imported |-> imported_count])
          IN /\ transactions_db' = rows
             /\ IF account_id < MaxAccounts
                THEN /\ sync' = [sync EXCEPT !.pc = "balances_sent",
                                             !.idx = account_id + 1,
                                             !.results = results]
                     /\ UNCHANGED <<runs, first_run>>
                ELSE /\ sync' = [SyncIdle EXCEPT !.results = results,
                                                 !.status = "completed"]
                     /\ runs' = runs + 1
                     /\ first_run' = IF runs = 0 THEN rows ELSE first_run
             /\ UNCHANGED bank_pages

SyncNext ==
    \/ SyncBankData
    \/ AccountsAnswered
    \/ BalancesAnswered
    \/ TransactionsAnswered

SyncSpec == SyncInit /\ [][SyncNext]_vars

\* ------------------------------------------------ revocation during a sync
\* The consent_id in the path of POST /sync-data/{consent_id}.
SyncConsent == 1

\* A connected consent: the state connect_bank, the bank's callback with tokens
\* and one tick of the clock lead to.
SyncRevokeInit ==
    /\ FrontendIdle
    /\ now = 1
    /\ uniqueKey = FALSE
    /\ issued = SyncConsent
    /\ consentStore = {SyncConsent}
    /\ expires_at = [c \in ConsentIds |-> IF c = SyncConsent THEN ExpirationWindow ELSE 0]
    /\ authUrl = {SyncConsent}
    /\ connected = {SyncConsent}
    /\ disconnected = {}
    /\ ofb_tokens = <<token_record(SyncConsent, TokenPayload(1, TRUE, Absent), 0)>>
    /\ tokenSeq = 1
    /\ background_tasks = [c \in ConsentIds \cup {UnknownConsent} |->
                              IF c = SyncConsent THEN 1 ELSE 0]
    /\ inflight = EmptyBag
    /\ last = NoResponse
    /\ GatewayIdle
    /\ bank_pages \in [Accounts -> {<<>>, <<1>>}]
    /\ transactions_db = <<>>
    /\ sync = SyncIdle
    /\ runs = 0
    /\ first_run = <<>>

\* sync_bank_data runs while the consent is revoked or the bank disconnected.
SyncRevokeNext ==
    \/ SyncBankData
    \/ AccountsAnswered
    \/ BalancesAnswered
    \/ TransactionsAnswered
    \/ \E c \in ConsentIds : RevokeConsent(c)
    \/ \E c \in ConsentIds : DisconnectBank(c)
    \/ RevokeConsentAnswered

SyncRevokeSpec == SyncRevokeInit /\ [][SyncRevokeNext]_vars

\* --------------------------------------------------------- bank API calls
validate_nothing(payment_data) == "ok"

\* _validate_pix_payment_data: the exception it raises, or "ok".  Decimal(str(x))
\* of a NaN compares with 0 by raising decimal.InvalidOperation.
_validate_pix_payment_data(payment_data) ==
    IF payment_data.keys # required_fields THEN "ValueError"
    ELSE IF payment_data.amount[1] = "str" THEN "ValueError"
    ELSE IF payment_data.amount[1] = "nan" THEN "InvalidOperation"
    ELSE IF payment_data.amount[2] <= 0 THEN "ValueError"
    ELSE IF payment_data.creditor_account_type \notin {"CACC", "SLRY", "SVGS", "TRAN"}
         THEN "ValueError"
    ELSE "ok"

surface_nothing(expected, answer) == "ok"

\* What a call does with the bank's answer: the client raises on a timeout, the
\* call raises HTTPException unless the status is the one it expects.
raise_unless(expected, answer) ==
    IF answer = TimedOut THEN "TimeoutException"
    ELSE IF answer.status_code # expected THEN "HTTPException"
    ELSE "ok"

\* The call as it ends on the bank's answer.
Answered(call, expected, answer, returned) ==
    LET result == raise_unless(expected, answer)
    IN [call EXCEPT !.pc = "done", !.answer = answer, !.result = result,
                    !.error = IF result = "ok" THEN NoError
                              ELSE IF result = "HTTPException"
                                   THEN Raised(result, answer.status_code)
                              ELSE Raised(result, 0),
                    !.returned = IF result = "ok" THEN returned ELSE {}]

GatewayInit ==
    /\ FrontendIdle
    /\ ConsentInit
    /\ uniqueKey = FALSE
    /\ bank_pages = [a \in Accounts |-> <<>>]
    /\ transactions_db = <<>>
    /\ sync = SyncIdle
    /\ runs = 0
    /\ first_run = <<>>
    /\ transport = 0
    /\ bank_script \in [1..MaxRequests + 1 -> BankAnswers]
    /\ bank_call = NoCall

\* create_pix_payment up to its POST: invalid payment data raises before any
\* request; valid data is posted to /pix/payments.
CreatePixPayment(payment_data) ==
    /\ UNCHANGED <<consentVars, syncVars, frontendVars, bank_script>>
    /\ bank_call.pc # "sent"
    /\ LET call == [NoCall EXCEPT !.op = "create_pix_payment",
                                  !.payment_data = payment_data]
           invalid == _validate_pix_payment_data(payment_data)
       IN IF invalid # "ok"
          THEN /\ bank_call' = [call EXCEPT !.pc = "done", !.result = invalid,
                                            !.error = Raised(invalid, 0)]
               /\ UNCHANGED transport
          ELSE /\ transport < MaxRequests
               /\ transport' = transport + 1
               /\ bank_call' = [call EXCEPT !.pc = "sent", !.attempts = 1,
                                            !.first = transport + 1]

\* create_pix_payment after the bank's answer: anything but 201 raises.
PixPaymentAnswered ==
    /\ UNCHANGED <<consentVars, syncVars, frontendVars, bank_script, transport>>
    /\ bank_call.op = "create_pix_payment"
    /\ bank_call.pc = "sent"
    /\ bank_call' = Answered(bank_call, 201, bank_script[transport], {"data"})

\* What categorization_service.suggest_category does for one transaction: it
\* returns a category, returns None, or raises.
Suggestions == {"category", "None", "raise"}

\* The transactions of one page, by what the categorization service does for each.
SuggestionsOfPage == UNION {[1..n -> Suggestions] : n \in 0..MaxPageLen}

\* The loop over transactions_data["data"]: each transaction is categorized and
\* transformed, category_id being the category's id or None.
transformed_transactions(suggestions) ==
    [i \in 1..Len(suggestions) |->
        [category_id |-> IF suggestions[i] = "category" THEN "id" ELSE "None"]]

\* The "pagination" entry of what get_account_transactions returns.
pagination(page, totalPages) == [page |-> totalPages, pages |-> totalPages]

\* get_account_transactions up to its GET, for the page the caller asks for.
GetAccountTransactions(page) ==
    /\ UNCHANGED <<consentVars, syncVars, frontendVars, bank_script>>
    /\ bank_call.pc # "sent"
    /\ transport < MaxRequests
    /\ transport' = transport + 1
    /\ bank_call' = [NoCall EXCEPT !.op = "get_account_transactions",
                                   !.pc = "sent", !.attempts = 1,
                                   !.first = transport + 1, !.page = page]

\* get_account_transactions after the bank's answer: anything but 200 raises;
\* on 200 every transaction of the page is categorized and transformed (an
\* exception of the categorization service leaves the call), and the
\* transactions and the pagination are returned.
TransactionsReturned ==
    /\ UNCHANGED <<consentVars, syncVars, frontendVars, bank_script, transport>>
    /\ bank_call.op = "get_account_transactions"
    /\ bank_call.pc = "sent"
    /\ LET call == Answered(bank_call, 200, bank_script[transport],
                            {"transactions", "pagination"})
       IN IF call.result # "ok"
          THEN bank_call' = call
          ELSE \E totalPages \in 1..MaxPages, suggestions \in SuggestionsOfPage :
                 LET data == [call EXCEPT !.totalPages = totalPages,
                                          !.suggestions = suggestions]
                 IN IF \E i \in 1..Len(suggestions) : suggestions[i] = "raise"
                    THEN bank_call' = [data EXCEPT !.result = "CategorizationError",
                                                   !.error = Raised("CategorizationError", 0),
                                                   !.returned = {}]
                    ELSE bank_call' =
                           [data EXCEPT !.transactions = transformed_transactions(suggestions),
                                        !.pagination = pagination(call.page, totalPages)]

GatewayNext ==
    \/ \E payment_data \in PaymentRequests : CreatePixPayment(payment_data)
    \/ PixPaymentAnswered
    \/ \E page \in 1..MaxPages : GetAccountTransactions(page)
    \/ TransactionsReturned

GatewaySpec == GatewayInit /\ [][GatewayNext]_vars

\* ---------------------------------------------------------------- frontend
\* How a request of the API client can end: the server's HTTP status, no
\* response at all (error.request), or an error while the request was set up.
ApiOutcomes == {"200", "401", "403", "404", "422", "500", "503",
                "no_response", "request_error"}

\* What the response interceptor writes to the console for an outcome.
console_error(outcome) ==
    CASE outcome = "200" -> "none"
      [] outcome = "401" -> "none"
      [] outcome = "403" -> "Access denied:"
      [] outcome = "404" -> "Resource not found:"
      [] outcome = "422" -> "Validation error:"
      [] outcome = "500" -> "Server error:"
      [] outcome = "no_response" -> "Network error: No response received"
      [] outcome = "request_error" -> "Request error:"
      [] OTHER -> "HTTP status:"

FrontendInit ==
    /\ ConsentInit
    /\ GatewayIdle
    /\ uniqueKey = FALSE
    /\ bank_pages = [a \in Accounts |-> <<>>]
    /\ transactions_db = <<>>
    /\ sync = SyncIdle
    /\ runs = 0
    /\ first_run = <<>>
    /\ auth_token \in BOOLEAN
    /\ location = "/"
    /\ api_request = NoRequest
    /\ Unmounted

\* api.get / post / put / delete / patch up to the request: the request
\* interceptor adds the Authorization header if localStorage holds a token.
ApiRequest ==
    /\ UNCHANGED <<consentVars, syncVars, gatewayVars>>
    /\ UNCHANGED <<auth_token, location, status, loading, error, connection,
                   connecting, health, pending, clicks, opened>>
    /\ api_request.pc # "sent"
    /\ api_request' = [NoRequest EXCEPT !.pc = "sent", !.sent = 1,
                                        !.authorization = auth_token]

\* The response interceptor: a response is returned; an error is logged by its
\* kind (401 removes the token and goes to the login page) and rejected.
ApiResponse ==
    /\ UNCHANGED <<consentVars, syncVars, gatewayVars>>
    /\ UNCHANGED <<status, loading, error, connection, connecting, health,
                   pending, clicks, opened>>
    /\ api_request.pc = "sent"
    /\ \E outcome \in ApiOutcomes :
         /\ api_request' = [api_request EXCEPT
                               !.pc = "settled",
                               !.outcome = outcome,
                               !.promise = IF outcome = "200" THEN "resolved"
                                                              ELSE "rejected",
                               !.console = console_error(outcome)]
         /\ auth_token' = IF outcome = "401" THEN FALSE ELSE auth_token
         /\ location' = IF outcome = "401" THEN "/login" ELSE location

\* Never disabled, whatever the component's state.
never_disabled(flag, data) == FALSE

\* The disabled attribute of the Connect button.
disabled(flag, data) == flag \/ data # "enabled"

\* How a fetch can end: a response that is ok, a response that is not, or a throw.
FetchOutcomes == {"ok", "not_ok", "throws"}

\* How reading the body of an ok response can end.
JsonOutcomes == {"data", "throws"}

\* The effect of OFBIntegration after its first render: fetchOFBStatus up to its fetch.
FetchOFBStatus ==
    /\ UNCHANGED <<consentVars, syncVars, gatewayVars>>
    /\ UNCHANGED <<auth_token, location, api_request, status, error, connection,
                   connecting, pending, clicks, opened>>
    /\ health = "idle"
    /\ loading' = TRUE
    /\ health' = "fetch"

\* fetchOFBStatus after its fetch: an ok response goes on to read the body, any
\* other sets the error and ends the loading.
OFBStatusAnswered ==
    /\ UNCHANGED <<consentVars, syncVars, gatewayVars>>
    /\ UNCHANGED <<auth_token, location, api_request, status, connection,
                   connecting, pending, clicks, opened>>
    /\ health = "fetch"
    /\ \E outcome \in FetchOutcomes :
         IF outcome = "ok"
         THEN /\ health' = "json"
              /\ UNCHANGED <<error, loading>>
         ELSE /\ health' = "done"
              /\ error' = IF outcome = "not_ok" THEN "Failed to fetch OFB status"
                                                ELSE "Error connecting to OFB service"
              /\ loading' = FALSE

\* fetchOFBStatus after the body: the data become the status and the error is
\* cleared, or the throw sets the error; the loading ends.
OFBStatusRead ==
    /\ UNCHANGED <<consentVars, syncVars, gatewayVars>>
    /\ UNCHANGED <<auth_token, location, api_request, connection, connecting,
                   pending, clicks, opened>>
    /\ health = "json"
    /\ health' = "done"
    /\ loading' = FALSE
    /\ \E outcome \in JsonOutcomes, enabled \in BOOLEAN :
         IF outcome = "data"
         THEN /\ status' = IF enabled THEN "enabled" ELSE "not_enabled"
              /\ error' = "null"
         ELSE /\ error' = "Error connecting to OFB service"
              /\ UNCHANGED status

\* A click on the Connect button, which is rendered once the loading has ended
\* and takes clicks unless disabled: initiateConnection up to its fetch.  React
\* renders the state a click handler sets before the next click is dispatched.
InitiateConnection ==
    /\ UNCHANGED <<consentVars, syncVars, gatewayVars>>
    /\ UNCHANGED <<auth_token, location, api_request, status, loading, error,
                   connection, health, opened>>
    /\ ~loading
    /\ ~disabled(connecting, status)
    /\ clicks < MaxClicks
    /\ clicks' = clicks + 1
    /\ connecting' = TRUE
    /\ pending' = [pending EXCEPT !.fetch = @ + 1]

\* initiateConnection after its fetch: an ok response goes on to read the body,
\* any other sets the error and lowers the flag.
ConnectionAnswered ==
    /\ UNCHANGED <<consentVars, syncVars, gatewayVars>>
    /\ UNCHANGED <<auth_token, location, api_request, status, loading, connection,
                   health, clicks, opened>>
    /\ pending.fetch > 0
    /\ \E outcome \in FetchOutcomes :
         IF outcome = "ok"
         THEN /\ pending' = [fetch |-> pending.fetch - 1, json |-> pending.json + 1]
              /\ UNCHANGED <<error, connecting>>
         ELSE /\ pending' = [pending EXCEPT !.fetch = @ - 1]
              /\ error' = IF outcome = "not_ok" THEN "Failed to initiate connection"
                                                ELSE "Error initiating connection"
              /\ connecting' = FALSE

\* initiateConnection after the body: the data become the connection and a
\* window opens on the authorization URL, or the throw sets the error; the flag
\* is lowered.
ConnectionRead ==
    /\ UNCHANGED <<consentVars, syncVars, gatewayVars>>
    /\ UNCHANGED <<auth_token, location, api_request, status, loading, health, clicks>>
    /\ pending.json > 0
    /\ pending' = [pending EXCEPT !.json = @ - 1]
    /\ connecting' = FALSE
    /\ \E outcome \in JsonOutcomes :
         IF outcome = "data"
         THEN /\ connection' = "data"
              /\ opened' = opened + 1
              /\ UNCHANGED error
         ELSE /\ error' = "Error initiating connection"
              /\ UNCHANGED <<connection, opened>>

FrontendNext ==
    \/ ApiRequest
    \/ ApiResponse
    \/ FetchOFBStatus
    \/ OFBStatusAnswered
    \/ OFBStatusRead
    \/ InitiateConnection
    \/ ConnectionAnswered
    \/ ConnectionRead

FrontendSpec == FrontendInit /\ [][FrontendNext]_vars

\* ------------------------------------------------------------------ claims
Success == {"ok", "connected", "True", "disconnected"}

Terminal == {"REVOKED", "EXPIRED"}

NonTerminal == {"REQUESTED", "AWAITING_AUTHORIZATION", "ACTIVE"}

RowsOfAccount(a) == SelectSeq(transactions_db, LAMBDA r : r.account = a)

\* The refresh requests in flight for one consent.
RefreshesInFlight(c) ==
    LET S == {r \in Suspended("get_valid_token", "refresh_sent") : r.consent = c}
    IN BagCardinality([r \in S |-> inflight[r]])

\* C1: once a consent is REVOKED or EXPIRED its status never changes, and an
\* authorization callback for such a consent fails: it does not answer
\* "connected" and stores nothing.
C1_TerminalStatesAreFinal ==
    [][/\ \A c \in ConsentIds : Status(c) \in Terminal => Status(c)' = Status(c)
       /\ (last'.op = "oauth_callback" /\ last'.pre \in Terminal)
            => (last'.result \notin Success /\ ~last'.wrote)]_vars

\* C2: an authorization callback delivered after the consent's expires_at leaves
\* the consent REVOKED and is rejected, never answered "connected".
C2_LateCallbackRevokes ==
    (last.op = "oauth_callback" /\ last.pre = "AWAITING_AUTHORIZATION" /\ last.late)
        => (Status(last.consent) = "REVOKED" /\ last.result \notin Success)

\* C3: get_valid_token returns a token only for a consent whose status is ACTIVE.
C3_TokenOnlyForActiveConsent ==
    (last.op = "get_valid_token" /\ last.result = "ok")
        => Status(last.consent) = "ACTIVE"

\* C4: no two rows of the transaction table share (account, external id), and
\* once a sync run has completed, further runs over the same bank transactions
\* leave the table's rows exactly as the first run left them.
C4_SyncTwiceIsSyncOnce ==
    /\ \A i, j \in 1..Len(transactions_db) :
         (/\ transactions_db[i].account = transactions_db[j].account
          /\ transactions_db[i].external_id = transactions_db[j].external_id)
            => i = j
    /\ runs >= 1 => transactions_db = first_run

C4_Witness ==
    /\ runs = 2
    /\ sync.status = "completed"
    /\ transactions_db # <<>>
    /\ \E a \in Accounts : Len(bank_pages[a]) > Len(RowsOfAccount(a))

\* C5: at most one refresh request is in flight for one (user, consent) key.
C5_OneRefreshInFlight ==
    \A c \in ConsentIds : RefreshesInFlight(c) <= 1

\* C6: a get_valid_token call that found the token expired and got refreshed
\* tokens from the bank made exactly one refresh call, left the refreshed tokens
\* as the key's only record, and returns the refreshed access token.
C6_RefreshReplacesRecord ==
    (/\ last.op = "get_valid_token"
     /\ last.refreshes > 0
     /\ last.tokens # NoPayload
     /\ last.tokens.refresh_token # None)
        => /\ last.refreshes = 1
           /\ last.result = "ok"
           /\ last.ret = last.tokens.access_token
           /\ RowsFor(ofb_tokens, last.consent)
                = <<token_record(last.consent, last.tokens, now)>>

\* C7: the vault holds at most one record per (user, consent) key, and a store
\* for a key leaves the stored payload as the key's only record.
C7_OneRecordPerKey ==
    /\ \A c \in ConsentIds \cup {UnknownConsent} : Len(RowsFor(ofb_tokens, c)) <= 1
    /\ (last.tokens # NoPayload /\ last.tokens.refresh_token # None)
         => RowsFor(ofb_tokens, last.consent)
              = <<token_record(last.consent, last.tokens, now)>>

\* C8: of two concurrent successful authorization callbacks for one consent, the
\* one that finds the consent ACTIVE already is a no-op that returns without error.
C8_SecondCallbackIsNoOp ==
    (/\ last.op = "oauth_callback"
     /\ last.pre = "AWAITING_AUTHORIZATION"
     /\ last.seen = "ACTIVE"
     /\ last.tokens # NoPayload
     /\ last.tokens.refresh_token # None)
        => (last.result \in Success /\ ~last.wrote)

\* C9: an authorization callback for a consent that is not AWAITING_AUTHORIZATION
\* (or does not exist) fails and leaves the consent's status unchanged.
C9_CallbackOnlyWhenAwaiting ==
    (last.op = "oauth_callback" /\ last.pre # "AWAITING_AUTHORIZATION")
        => /\ last.result \notin Success
           /\ ~last.wrote
           /\ Status(last.consent) = last.seen

\* C10: a revoke that the bank confirms moves a consent in a non-terminal state
\* to REVOKED, and a revoke of a consent that is already REVOKED succeeds without
\* error and (for revoke_consent) without changing state.
C10_RevokeIsIdempotent ==
    last.op \in {"revoke_consent", "disconnect_bank"}
        => /\ (last.seen \in NonTerminal /\ last.result \in Success)
                => Status(last.consent) = "REVOKED"
           /\ last.pre = "REVOKED"
                => /\ last.result \in Success
                   /\ last.op = "revoke_consent" => ~last.wrote

\* The permissions the flow serves: those of the code's own consent request.
SupportedScopes == {"accounts", "transactions"}

\* C11: after a revoke has succeeded no token record is left for the consent's
\* key, and delivering the revocation again (disconnect_bank for a consent that
\* is REVOKED already) raises no error.
C11_RevokeClearsVault ==
    last.op \in {"revoke_consent", "disconnect_bank"}
        => /\ (last.result \in Success)
                => RowsFor(ofb_tokens, last.consent) = <<>>
           /\ (last.op = "disconnect_bank" /\ last.pre = "REVOKED")
                => last.result \in Success

\* C19: a consent request whose permissions are not all supported makes no call
\* to the bank and creates no consent: no connect_bank handler with such
\* permissions is ever waiting for the bank, and none answers with success.
C19_UnsupportedScopesRejectedLocally ==
    /\ \A r \in BagToSet(inflight) :
         r.op = "connect_bank" => r.permissions \subseteq SupportedScopes
    /\ (last.op = "connect_bank" /\ ~(last.permissions \subseteq SupportedScopes))
         => last.result \notin Success

\* C20: a consent record, once created, is never deleted: every consent the
\* bank has issued is still in the local consent storage.
C20_ConsentNeverDeleted ==
    \A c \in 1..issued : c \in consentStore

\* C12: once the consent of a running sync is REVOKED, the sync starts the fetch
\* of no further account.
C12_NoFetchAfterRevoke ==
    [][(Status(SyncConsent) = "REVOKED" /\ sync.pc # "idle")
          => ~(sync'.pc = "balances_sent" /\ sync'.idx > sync.idx)]_vars

\* What sync_bank_data's answer says under a key of its per-account results:
\* the sum over the accounts, or Absent when the results do not carry the key.
RECURSIVE JobCount(_, _)
JobCount(results, key) ==
    IF results = <<>> THEN 0
    ELSE IF key \notin DOMAIN Head(results) THEN Absent
    ELSE LET rest == JobCount(Tail(results), key)
         IN IF rest = Absent THEN Absent ELSE Head(results)[key] + rest

RECURSIVE Fetched(_)
Fetched(a) == IF a = 0 THEN 0 ELSE Len(bank_pages[a]) + Fetched(a - 1)

\* C13: a completed sync reports as imported the fetched transactions that were
\* new (none when an earlier run has completed over the same bank data) and as
\* skipped the remaining fetched transactions.
C13_ImportedAndSkippedCounts ==
    sync.status = "completed"
        => LET imported_count == JobCount(sync.results, "transactions_imported")
               skipped_count == JobCount(sync.results, "transactions_skipped")
           IN /\ imported_count # Absent
              /\ imported_count <= Len(transactions_db)
              /\ runs >= 2 => imported_count = 0
              /\ skipped_count # Absent
              /\ skipped_count = Fetched(MaxAccounts) - imported_count

\* A payment request whose amount is not greater than zero or that lacks one of
\* the recipient's identifiers.
InvalidPayment(payment_data) ==
    \/ /\ "amount" \in payment_data.keys
       /\ \/ payment_data.amount[1] = "nan"
          \/ payment_data.amount[1] = "int" /\ payment_data.amount[2] <= 0
    \/ "creditor_ispb" \notin payment_data.keys
    \/ "creditor_account" \notin payment_data.keys

RateLimited == BankAnswer(429, "RATE_LIMIT_EXCEEDED")

Transient == {RateLimited, BankAnswer(500, "SERVER_ERROR"), TimedOut}

C15_PaymentSentAtMostOnce ==
    bank_call.op = "create_pix_payment"
        => /\ bank_call.attempts <= 1
           /\ bank_call.first > 0 => transport = bank_call.first
           /\ (bank_call.pc = "done" /\ bank_call.attempts = 1
                 /\ bank_call.answer # BankAnswer(201, "CREATED"))
                => /\ bank_call.result \in {"HTTPException", "TimeoutException"}
                   /\ bank_call.error.type = bank_call.result

C15_Witness ==
    /\ bank_call.op = "create_pix_payment"
    /\ bank_call.pc = "done"
    /\ bank_call.answer = RateLimited
    /\ bank_call.result = "HTTPException"
    /\ bank_call.attempts = 1
    /\ transport = MaxRequests

\* C16: when the bank answers a get_account_transactions call with RateLimited
\* twice and then with success, the call succeeds on its third attempt and what
\* it returns reports the retries.
C16_RateLimitedTwiceThenSuccess ==
    (/\ bank_call.op = "get_account_transactions"
     /\ bank_call.pc = "done"
     /\ bank_call.first + 2 <= Len(bank_script)
     /\ SubSeq(bank_script, bank_call.first, bank_call.first + 2)
          = <<RateLimited, RateLimited, BankAnswer(200, "OK")>>)
        => /\ bank_call.result = "ok"
           /\ bank_call.attempts = 3
           /\ bank_call.returned \ {"transactions", "pagination"} # {}

\* C17: a call that failed with a transient error made no more attempts than
\* max_retries, and its error is tagged with the attempts made.
C17_RetriesBoundedAndTagged ==
    (/\ bank_call.op = "get_account_transactions"
     /\ bank_call.pc = "done"
     /\ bank_call.answer \in Transient)
        => /\ bank_call.attempts <= max_retries
           /\ "attempts" \in DOMAIN bank_call.error
           /\ bank_call.error["attempts"] = bank_call.attempts

\* C18: a call that failed with the bank's CERTIFICATE_ERROR made one attempt,
\* and after it no further request is sent to the bank.
C18_CertificateErrorHalts ==
    [][(bank_call.pc = "done" /\ bank_call.answer.code = "CERTIFICATE_ERROR")
          => (bank_call.attempts = 1 /\ transport' = transport)]_vars

\* C26: no get_valid_token call made after the consent's expiration timestamp
\* returns a token.
C26_NoAccessAfterExpiration ==
    (last.op = "get_valid_token" /\ last.result = "ok") => ~last.late

\* C27: when a revoke or a disconnect of a connected consent has returned with
\* success, the consent's bank connection is marked disconnected.
C27_RevokedMeansDisconnected ==
    (/\ last.op \in {"revoke_consent", "disconnect_bank"}
     /\ last.result \in Success
     /\ last.consent \in connected)
        => last.consent \in disconnected

C29_RefreshAfterRevokeStoresNothing ==
    (/\ last.op = "get_valid_token"
     /\ last.refreshes > 0
     /\ last.pre = "ACTIVE"
     /\ last.seen = "REVOKED"
     /\ last.consent \in disconnected
     /\ last.tokens # NoPayload
     /\ last.tokens.refresh_token # None)
        => (~last.wrote /\ RowsFor(ofb_tokens, last.consent) = <<>>)

\* C22: a sync that has gone through every account ends as failed only when no
\* account succeeded: the run does not end with an error while the results
\* hold an account that was synced.
C22_FailedOnlyWhenEveryAccountFailed ==
    [][(/\ sync.pc # "idle"
        /\ sync.idx = MaxAccounts
        /\ sync'.pc = "idle"
        /\ sync'.status # "completed")
          => sync.results = <<>>]_vars

\* C23: whatever the bank answers to the balance request of an account, the
\* sync goes on to fetch that account's transactions.
C23_BalanceFailureDoesNotAbort ==
    [][sync.pc = "balances_sent"
          => (sync'.pc = "transactions_sent" /\ sync'.idx = sync.idx)]_vars

\* C24: when the bank has answered 200, get_account_transactions returns every
\* transaction of the page, those whose categorization failed with no category.
C24_CategorizationFailureKeepsTransaction ==
    (/\ bank_call.op = "get_account_transactions"
     /\ bank_call.pc = "done"
     /\ bank_call.answer = BankAnswer(200, "OK"))
        => /\ bank_call.result = "ok"
           /\ Len(bank_call.transactions) = Len(bank_call.suggestions)
           /\ \A i \in 1..Len(bank_call.transactions) :
                bank_call.suggestions[i] = "raise"
                    => bank_call.transactions[i].category_id = "None"

\* C25: get_account_transactions reports to its caller the page it was asked
\* for and the bank's total page count.
C25_PaginationReported ==
    (/\ bank_call.op = "get_account_transactions"
     /\ bank_call.pc = "done"
     /\ bank_call.result = "ok"
     /\ bank_call.page <= bank_call.totalPages)
        => /\ bank_call.pagination.page = bank_call.page
           /\ bank_call.pagination.pages = bank_call.totalPages

\* C21: a request of the frontend's API client that is rejected because no
\* response was received has been sent more than once.
C21_NetworkErrorRetried ==
    (/\ api_request.pc = "settled"
     /\ api_request.outcome = "no_response"
     /\ api_request.promise = "rejected")
        => api_request.sent > 1

====
